---- MODULE Spec2Model ----
(***************************************************************************)
(* Model of the Leads Validator Streamlit application (src/app.py).        *)
(*                                                                         *)
(* Every browser session runs main() from the top on each user event.      *)
(* A run is split at its database round trips and at the HTTP call, which  *)
(* are the points where runs of other sessions and the external n8n        *)
(* workflow can interleave.  The two tables csv_uploads and                *)
(* processed_leads and the webhook endpoint are shared by all sessions.    *)
(*                                                                         *)
(* Database statements are taken to succeed, and the tables carry no       *)
(* constraint beyond what the statements of the source state: ids are      *)
(* serial and unique, usernames are not NULL.  A button can be pressed     *)
(* only where the last finished run of the session rendered it enabled.    *)
(***************************************************************************)
EXTENDS Integers, Sequences, FiniteSets, TLC

\* ------------------------------------------------------------ bounds ----
MaxBatches  == 2        \* rows csv_uploads may hold
MaxRaceBatches == 1     \* rows csv_uploads may hold where two sessions dispatch
MaxLeads    == 2        \* rows the workflow inserts into processed_leads
MaxPosts    == 2        \* requests the webhook endpoint receives
DedupMaxId  == 4        \* largest processed_leads id of the dedup inputs

\* ---------------------------------------------------------- constants ---
HTTP_OK == 200

Sessions      == {"s1", "s2"}                   \* concurrent browser sessions
FilenameOrder == <<"a.csv", "b.csv">>            \* ascending, as ORDER BY filename
Filenames     == {FilenameOrder[i] : i \in DOMAIN FilenameOrder}
\* files a user may put into the uploader: name and decoded text
Files         == {[name |-> "a.csv", content |-> "u,v"],
                  [name |-> "a.csv", content |-> "w"],
                  [name |-> "b.csv", content |-> "w"]}
Usernames     == {"A", "B"}
StatusCodes   == {HTTP_OK, 500}                  \* codes the webhook may answer
Credentials   == {"good", "bad"}                 \* typed username/password pairs

ContentOf(f)  == IF f = "a.csv" THEN "u,v" ELSE "w"

None   == "None"
NoId   == 0
NoFile == [name |-> None, content |-> ""]
NoResponse == 0

\* lines 67-68: nothing typed yet; st.secrets.credentials typed
NoInput == <<None, None>>

ConfiguredInput == <<"good", "good">>

VARIABLES
    csv_uploads,          \* table: sequence of rows, the row's id is its index
    processed_leads,      \* table: set of rows [id, username]
    lead_seq,             \* serial of processed_leads.id
    endpoint_calls,       \* webhook: requests received, per x-id
    endpoint_ok,          \* webhook: requests answered 200, per x-id
    endpoint_seen,        \* webhook: set of [xid, body] received
    logged_in,            \* st.session_state.logged_in
    login_input,          \* the Username and Password text inputs at the last Login press
    uploader,             \* file held by the st.file_uploader widget
    selected_filename,    \* st.session_state.selected_filename
    process_enabled,      \* "Process Leads" was rendered enabled by the last run
    confirm_shown,        \* "Yes, Deduplicate Now" was rendered by the last run
    pc,                   \* position of the session's current run of main()
    trigger,              \* the button whose click started the current run
    selected_file_id,     \* local of main()
    selected_file_status, \* local of main()
    csv_data_text,        \* local of main()
    response,             \* local of main(): response.status_code
    rowcount,             \* result.rowcount of the session's last DELETE
    messages              \* st.error / st.warning / st.success of the run in progress

db       == <<csv_uploads, processed_leads, lead_seq>>
endpoint == <<endpoint_calls, endpoint_ok, endpoint_seen>>
widgets  == <<logged_in, login_input, uploader, selected_filename, process_enabled, confirm_shown>>
locals   == <<selected_file_id, selected_file_status, csv_data_text, response>>
vars     == <<csv_uploads, processed_leads, lead_seq, endpoint_calls, endpoint_ok,
              endpoint_seen, logged_in, login_input, uploader,
              selected_filename,
              process_enabled, confirm_shown, pc, trigger, selected_file_id,
              selected_file_status, csv_data_text, response, rowcount, messages>>

\* ------------------------------------------------------------ helpers ---
Rank(f) == CHOOSE i \in DOMAIN FilenameOrder : FilenameOrder[i] = f

Ids == DOMAIN csv_uploads

\* files_df['filename'].tolist()
ListedFilenames == {csv_uploads[i].filename : i \in Ids}

\* filenames[0] of the list ordered by filename ascending
FirstFilename ==
    CHOOSE f \in ListedFilenames : \A g \in ListedFilenames : Rank(f) <= Rank(g)

\* every arrangement of the elements of a finite set in a sequence
Arrangements(S) ==
    {l \in [1..Cardinality(S) -> S] : \A i, j \in DOMAIN l : i # j => l[i] # l[j]}

\* lines 138-141: SELECT id, filename, status FROM csv_uploads ORDER BY filename
\* ASC.  The rows are identified by their id; ORDER BY fixes the order of two
\* rows only when their filenames differ, so the query may return any
\* arrangement that is ascending by filename.
BatchListings ==
    {l \in Arrangements(Ids) :
        \A i, j \in DOMAIN l :
            i < j => Rank(csv_uploads[l[i]].filename) <= Rank(csv_uploads[l[j]].filename)}

\* lines 288-294: SELECT ... FROM processed_leads ORDER BY id DESC
ResultListings ==
    {l \in Arrangements(processed_leads) :
        \A i, j \in DOMAIN l : i < j => l[i].id >= l[j].id}

\* lines 149-158: keep the selection when it is still listed, else the first
ValidatedSelection(s) ==
    IF ListedFilenames = {} THEN selected_filename[s]
    ELSE IF selected_filename[s] \in ListedFilenames THEN selected_filename[s]
    ELSE FirstFilename

\* rows of files_df matching the selection (line 178)
RowsNamed(f) == {i \in Ids : csv_uploads[i].filename = f}

\* json.dumps({"csv_content": csv_text})
JsonPayload(text) == [csv_content |-> text]

\* line 214: csv_data_json.get("csv_content"): None when the key is missing
GetCsvContent(data) ==
    IF "csv_content" \in DOMAIN data THEN data.csv_content ELSE None

TruthyUnlessNone(text) == text # None

\* line 220: truthiness of csv_data_text, a Python str or None
Truthy(text) == text # None /\ text # ""

ResetLocals(s) ==
    /\ selected_file_id' = [selected_file_id EXCEPT ![s] = NoId]
    /\ selected_file_status' = [selected_file_status EXCEPT ![s] = None]
    /\ csv_data_text' = [csv_data_text EXCEPT ![s] = None]
    /\ response' = [response EXCEPT ![s] = NoResponse]

Idle(s) == pc[s] = "idle"


\* st.rerun(): the current run stops and a new run of main() starts with no
\* button pressed; its first database access is the file list query
Rerun(s) ==
    /\ pc' = [pc EXCEPT ![s] = "list"]
    /\ trigger' = [trigger EXCEPT ![s] = "none"]
    /\ ResetLocals(s)

\* the run reaches the end of main()
Finish(s) ==
    /\ pc' = [pc EXCEPT ![s] = "idle"]
    /\ trigger' = [trigger EXCEPT ![s] = "none"]
    /\ messages' = [messages EXCEPT ![s] = {}]
    /\ ResetLocals(s)

Show(s, m) == messages' = [messages EXCEPT ![s] = @ \cup {m}]

\* --------------------------------------------------------------- Init ---
Init ==
    /\ csv_uploads = <<>>
    /\ processed_leads = {}
    /\ lead_seq = 1
    /\ endpoint_calls = [i \in 1..MaxBatches |-> 0]
    /\ endpoint_ok = [i \in 1..MaxBatches |-> 0]
    /\ endpoint_seen = {}
    /\ logged_in = [s \in Sessions |-> FALSE]
    /\ login_input = [s \in Sessions |-> NoInput]
    /\ uploader = [s \in Sessions |-> NoFile]
    /\ selected_filename = [s \in Sessions |-> None]
    /\ process_enabled = [s \in Sessions |-> FALSE]
    /\ confirm_shown = [s \in Sessions |-> FALSE]
    /\ pc = [s \in Sessions |-> "idle"]
    /\ trigger = [s \in Sessions |-> "none"]
    /\ selected_file_id = [s \in Sessions |-> NoId]
    /\ selected_file_status = [s \in Sessions |-> None]
    /\ csv_data_text = [s \in Sessions |-> None]
    /\ response = [s \in Sessions |-> NoResponse]
    /\ rowcount = [s \in Sessions |-> 0]
    /\ messages = [s \in Sessions |-> {}]

\* ------------------------------------------------------ login section ---
CredentialsMatchUsernameOnly(u, p) == u = "good"

\* line 70: username == st.secrets.credentials.username and
\*          password == st.secrets.credentials.password
CredentialsMatch(u, p) == u = "good" /\ p = "good"

\* lines 66-75: the Login button, pressed with the typed credentials
ClickLogin(s, u, p) ==
    /\ Idle(s)
    /\ ~logged_in[s]
    /\ login_input' = [login_input EXCEPT ![s] = <<u, p>>]
    /\ IF CredentialsMatch(u, p)
       THEN /\ logged_in' = [logged_in EXCEPT ![s] = TRUE]
            /\ messages' = [messages EXCEPT ![s] = {}]
            /\ Rerun(s)
       ELSE \* st.error("Invalid credentials"), return: the run is over
            UNCHANGED <<logged_in, pc, trigger, locals, messages>>
    /\ UNCHANGED <<db, endpoint, uploader, selected_filename, process_enabled,
                   confirm_shown, rowcount>>

\* ------------------------------------------------- file list section ----
\* lines 138-195: list query, selection, status of the selected file.
\* ORDER BY filename leaves the order of rows with equal filenames open,
\* so iloc[0] is any row carrying the selected filename.
RenderFileSection(s) ==
    /\ selected_filename' = [selected_filename EXCEPT ![s] = ValidatedSelection(s)]
    /\ IF ListedFilenames = {}
       THEN process_enabled' = [process_enabled EXCEPT ![s] = FALSE]
       ELSE \E i \in RowsNamed(ValidatedSelection(s)) :
                process_enabled' =
                    [process_enabled EXCEPT ![s] = (csv_uploads[i].status = "notstarted")]

\* a run with no button pressed: the 60 s auto-refresh (line 81)
AutoRefresh(s) ==
    /\ Idle(s)
    /\ logged_in[s]
    /\ messages' = [messages EXCEPT ![s] = {}]
    /\ RenderFileSection(s)
    /\ pc' = [pc EXCEPT ![s] = "tab2"]
    /\ UNCHANGED <<db, endpoint, logged_in, login_input, uploader, confirm_shown, trigger,
                   locals, rowcount>>

\* the file list section of a run started by st.rerun() or continued after
\* the save section
ListFiles(s) ==
    /\ pc[s] = "list"
    /\ RenderFileSection(s)
    /\ pc' = [pc EXCEPT ![s] = "tab2"]
    /\ UNCHANGED <<db, endpoint, logged_in, login_input, uploader, confirm_shown, trigger,
                   locals, rowcount, messages>>

\* lines 161-171: another file is chosen in the select box, which is rendered
\* once a run has listed a file
SelectFile(s, f) ==
    /\ Idle(s)
    /\ logged_in[s]
    /\ selected_filename[s] # None
    /\ f \in ListedFilenames
    /\ f # selected_filename[s]
    /\ selected_filename' = [selected_filename EXCEPT ![s] = f]
    /\ messages' = [messages EXCEPT ![s] = {}]
    /\ Rerun(s)
    /\ UNCHANGED <<db, endpoint, logged_in, login_input, uploader, process_enabled,
                   confirm_shown, rowcount>>

\* ------------------------------------------------------ upload section --
\* lines 16-38: a file is put into the uploader widget
Upload(s, file) ==
    /\ Idle(s)
    /\ logged_in[s]
    /\ uploader[s] # file
    /\ uploader' = [uploader EXCEPT ![s] = file]
    /\ messages' = [messages EXCEPT ![s] = {}]
    /\ Rerun(s)
    /\ UNCHANGED <<db, endpoint, logged_in, login_input, selected_filename, process_enabled,
                   confirm_shown, rowcount>>

FilenameExistsNever(f) == FALSE

\* line 105-106: SELECT 1 FROM csv_uploads WHERE filename = :filename
FilenameExists(f) == \E i \in Ids : csv_uploads[i].filename = f

Inserting == {t \in Sessions : pc[t] = "insert"}

\* lines 98-109: "Save CSV to Postgres" pressed; the duplicate check
ClickSave(s, cap) ==
    /\ Idle(s)
    /\ logged_in[s]
    /\ uploader[s] # NoFile
    /\ messages' = [messages EXCEPT ![s] =
                       IF FilenameExists(uploader[s].name)
                       THEN {"duplicate_filename"} ELSE {}]
    /\ trigger' = [trigger EXCEPT ![s] = "save"]
    /\ IF FilenameExists(uploader[s].name)
       THEN pc' = [pc EXCEPT ![s] = "list"]
       ELSE /\ Len(csv_uploads) + Cardinality(Inserting) < cap
            /\ pc' = [pc EXCEPT ![s] = "insert"]
    /\ UNCHANGED <<db, endpoint, widgets, locals, rowcount>>

\* lines 112-119: the row the INSERT adds
NewRow(file) ==
    [filename |-> file.name, csv_data |-> JsonPayload(file.content),
     status |-> "notstarted"]

\* lines 116-124: INSERT, commit, success message, st.rerun()
SaveInsert(s) ==
    /\ pc[s] = "insert"
    /\ csv_uploads' = Append(csv_uploads, NewRow(uploader[s]))
    /\ Show(s, "saved")
    /\ Rerun(s)
    /\ UNCHANGED <<processed_leads, lead_seq, endpoint, widgets, rowcount>>

\* ---------------------------------------------------- dispatch section --
MayDispatchAnyStatus(id, status) == id # NoId

\* line 202: the guard of the dispatch, on the values read by the list query
MayDispatch(id, status) == id # NoId /\ status = "notstarted"

\* lines 138-202, 241: "Process Leads" pressed.  The run reads the file list,
\* takes id and status of the selected file from it and tests them.
ClickProcess(s) ==
    /\ Idle(s)
    /\ logged_in[s]
    /\ process_enabled[s]
    /\ selected_filename' = [selected_filename EXCEPT ![s] = ValidatedSelection(s)]
    /\ trigger' = [trigger EXCEPT ![s] = "process"]
    /\ \E i \in RowsNamed(ValidatedSelection(s)) :
          /\ process_enabled' =
                 [process_enabled EXCEPT ![s] = (csv_uploads[i].status = "notstarted")]
          /\ selected_file_id' = [selected_file_id EXCEPT ![s] = i]
          /\ selected_file_status' =
                 [selected_file_status EXCEPT ![s] = csv_uploads[i].status]
          /\ IF MayDispatch(i, csv_uploads[i].status)
             THEN /\ pc' = [pc EXCEPT ![s] = "fetch"]
                  /\ messages' = [messages EXCEPT ![s] = {}]
             ELSE /\ pc' = [pc EXCEPT ![s] = "tab2"]
                  /\ messages' = [messages EXCEPT ![s] = {"cannot_process"}]
    /\ UNCHANGED <<db, endpoint, logged_in, login_input, uploader, confirm_shown,
                   csv_data_text, response, rowcount>>

FetchedTextOfFirstRow(id) ==
    IF id \in Ids THEN GetCsvContent(csv_uploads[1].csv_data) ELSE None

\* lines 207-218: SELECT csv_data FROM csv_uploads WHERE id = :id
FetchedText(id) ==
    IF id \in Ids THEN GetCsvContent(csv_uploads[id].csv_data) ELSE None

\* lines 204-220, 236-239: fetch of the stored CSV.  Without a usable text the
\* else branch of line 236 reads the unbound name `response`; the NameError is
\* caught at line 238 and shown as an error.
Fetch(s) ==
    /\ pc[s] = "fetch"
    /\ csv_data_text' = [csv_data_text EXCEPT ![s] = FetchedText(selected_file_id[s])]
    /\ IF Truthy(FetchedText(selected_file_id[s]))
       THEN /\ pc' = [pc EXCEPT ![s] = "post"]
            /\ UNCHANGED messages
       ELSE /\ pc' = [pc EXCEPT ![s] = "tab2"]
            /\ messages' = [messages EXCEPT ![s] =
                   @ \cup (IF selected_file_id[s] \in Ids THEN {} ELSE {"no_csv_data"})
                     \cup {"error_processing"}]
    /\ UNCHANGED <<db, endpoint, widgets, trigger, selected_file_id,
                   selected_file_status, response, rowcount>>

AfterResponseAlwaysUpdate(code) == "update"

\* lines 228, 236: where the run goes after the response.  The else of line 236
\* pairs with `if csv_data_text`, so a response other than 200 falls through
\* to the end of the dispatch section.
AfterResponse(code) == IF code = HTTP_OK THEN "update" ELSE "tab2"

\* lines 228-237: what the run shows for a response other than 200: nothing
ResponseMessages(code) == {}

\* lines 222-228: requests.post answered with a status code
Post(s, code) ==
    /\ pc[s] = "post"
    /\ endpoint_calls[selected_file_id[s]] < MaxPosts
    /\ endpoint_calls' = [endpoint_calls EXCEPT ![selected_file_id[s]] = @ + 1]
    /\ endpoint_ok' = [endpoint_ok EXCEPT ![selected_file_id[s]] =
                          IF code = HTTP_OK THEN @ + 1 ELSE @]
    /\ endpoint_seen' = endpoint_seen \cup
                          {[xid |-> selected_file_id[s], body |-> csv_data_text[s]]}
    /\ response' = [response EXCEPT ![s] = code]
    /\ pc' = [pc EXCEPT ![s] = AfterResponse(code)]
    /\ messages' = [messages EXCEPT ![s] = @ \cup ResponseMessages(code)]
    /\ UNCHANGED <<db, widgets, trigger, selected_file_id, selected_file_status,
                   csv_data_text, rowcount>>

\* lines 226, 238-239: requests.post raises (no connection); the exception is
\* caught and shown
PostRaises(s) ==
    /\ pc[s] = "post"
    /\ pc' = [pc EXCEPT ![s] = "tab2"]
    /\ Show(s, "error_processing")
    /\ UNCHANGED <<db, endpoint, widgets, trigger, locals, rowcount>>

StatusUpdateNoWrite(table, id) == table

StatusUpdateWritesComplete(table, id) ==
    [i \in DOMAIN table |->
        IF i = id THEN [table[i] EXCEPT !.status = "complete"] ELSE table[i]]

\* line 231: UPDATE csv_uploads SET status = 'inprogress' WHERE id = :id
StatusUpdate(table, id) ==
    [i \in DOMAIN table |->
        IF i = id THEN [table[i] EXCEPT !.status = "inprogress"] ELSE table[i]]

\* lines 230-235: the status update, success message, st.rerun()
Update(s) ==
    /\ pc[s] = "update"
    /\ csv_uploads' = StatusUpdate(csv_uploads, selected_file_id[s])
    /\ Show(s, "sent")
    /\ Rerun(s)
    /\ UNCHANGED <<processed_leads, lead_seq, endpoint, widgets, rowcount>>

\* -------------------------------------------------- processed leads tab --
DedupeDeleteKeepNewest(leads) ==
    {r \in leads : ~ \E r2 \in leads : r.id < r2.id /\ r.username = r2.username}

DedupeDeleteNewestOnly(leads) ==
    {r \in leads :
        \/ ~ \E r2 \in leads : r.id > r2.id /\ r.username = r2.username
        \/ \E r3 \in leads : r.id < r3.id /\ r.username = r3.username}

\* lines 274-277: DELETE FROM processed_leads T1 USING processed_leads T2
\*                WHERE T1.id > T2.id AND T1.username = T2.username
DedupeDelete(leads) ==
    {r \in leads : ~ \E r2 \in leads : r.id > r2.id /\ r.username = r2.username}

\* lines 269, 271: both buttons are true in this run.  A button is true only
\* in the run its own click started.
DedupeButton(s) == trigger[s] = "dedupe"

ConfirmButton(s) == trigger[s] = "confirm"

DedupeOnFirstButton(s) == DedupeButton(s)

DedupeConfirmed(s) == DedupeButton(s) /\ ConfirmButton(s)

\* lines 274-277: the rows of T1 joined with the rows of T2 by the WHERE clause
DedupeJoin(leads) ==
    {p \in leads \X leads : p[1].id > p[2].id /\ p[1].username = p[2].username}

DeleteRowCountPerJoinRow(leads) == Cardinality(DedupeJoin(leads))

\* line 282: result.rowcount of the DELETE: the number of target rows (T1) the
\* statement removed; a target row joined with several T2 rows is one row
DeleteRowCount(leads) == Cardinality({p[1] : p \in DedupeJoin(leads)})

\* lines 272-283: the DELETE, commit, success message, st.rerun()
DedupeNow(s) ==
    /\ processed_leads' = DedupeDelete(processed_leads)
    /\ rowcount' = [rowcount EXCEPT ![s] = DeleteRowCount(processed_leads)]
    /\ messages' = [messages EXCEPT ![s] = @ \cup {"dedupe_warning", "dedupe_done"}]
    /\ Rerun(s)

\* lines 253-305: the Processed Leads tab: count, dedup buttons, table
Tab2(s) ==
    /\ pc[s] = "tab2"
    /\ confirm_shown' = [confirm_shown EXCEPT ![s] = DedupeButton(s)]
    /\ IF DedupeConfirmed(s)
       THEN DedupeNow(s)
       ELSE /\ Finish(s)
            /\ UNCHANGED <<processed_leads, rowcount>>
    /\ UNCHANGED <<csv_uploads, lead_seq, endpoint, logged_in, login_input, uploader,
                   selected_filename, process_enabled>>

\* line 269: "Deduplicate by Username (Keep Oldest)" pressed
ClickDedupe(s) ==
    /\ Idle(s)
    /\ logged_in[s]
    /\ trigger' = [trigger EXCEPT ![s] = "dedupe"]
    /\ messages' = [messages EXCEPT ![s] = {}]
    /\ RenderFileSection(s)
    /\ pc' = [pc EXCEPT ![s] = "tab2"]
    /\ UNCHANGED <<db, endpoint, logged_in, login_input, uploader, confirm_shown, locals, rowcount>>

\* line 271: "Yes, Deduplicate Now" pressed; it can be pressed only where the
\* previous run rendered it
ClickConfirm(s) ==
    /\ Idle(s)
    /\ logged_in[s]
    /\ confirm_shown[s]
    /\ trigger' = [trigger EXCEPT ![s] = "confirm"]
    /\ messages' = [messages EXCEPT ![s] = {}]
    /\ RenderFileSection(s)
    /\ pc' = [pc EXCEPT ![s] = "tab2"]
    /\ UNCHANGED <<db, endpoint, logged_in, login_input, uploader, confirm_shown, locals, rowcount>>

\* ------------------------------------------------ external n8n workflow --
\* the workflow marks a batch it has accepted as complete
ExternalComplete(i) ==
    /\ i \in Ids
    /\ endpoint_ok[i] > 0
    /\ csv_uploads[i].status # "complete"
    /\ csv_uploads' = [csv_uploads EXCEPT ![i].status = "complete"]
    /\ UNCHANGED <<processed_leads, lead_seq, endpoint, widgets, pc, trigger,
                   locals, rowcount, messages>>

\* the workflow stores one processed lead
ExternalInsertLead(u) ==
    /\ lead_seq <= MaxLeads
    /\ processed_leads' = processed_leads \cup {[id |-> lead_seq, username |-> u]}
    /\ lead_seq' = lead_seq + 1
    /\ UNCHANGED <<csv_uploads, endpoint, widgets, pc, trigger, locals, rowcount,
                   messages>>

\* ------------------------------------------------------ specification ---
\* login, upload and registration, and the parts of main() every run executes
RegisterStep(s, files, cap) ==
    \/ \E u, p \in Credentials : ClickLogin(s, u, p)
    \/ AutoRefresh(s)
    \/ ListFiles(s)
    \/ \E file \in files : Upload(s, file)
    \/ ClickSave(s, cap)
    \/ SaveInsert(s)
    \/ Tab2(s)

\* the select box
SelectStep(s) == \E f \in Filenames : SelectFile(s, f)

\* dispatch of the selected file
DispatchStep(s) ==
    \/ ClickProcess(s)
    \/ Fetch(s)
    \/ \E code \in StatusCodes : Post(s, code)
    \/ PostRaises(s)
    \/ Update(s)

\* the two deduplication buttons
DedupeStep(s) ==
    \/ ClickDedupe(s)
    \/ ClickConfirm(s)

CompleteStep == \E i \in 1..MaxBatches : ExternalComplete(i)

LeadStep == \E u \in Usernames : ExternalInsertLead(u)

\* the whole program: every session, the workflow
Next ==
    \/ \E s \in Sessions :
           \/ RegisterStep(s, Files, MaxBatches)
           \/ SelectStep(s)
           \/ DispatchStep(s)
           \/ DedupeStep(s)
    \/ CompleteStep
    \/ LeadStep

Spec == Init /\ [][Next]_vars

\* registration by all sessions, no dispatch
NextRegister == \E s \in Sessions : RegisterStep(s, Files, MaxBatches)

SpecRegister == Init /\ [][NextRegister]_vars

\* registration and dispatch by all sessions racing for the same files:
\* processed_leads left alone, each file name uploaded with one text
DispatchFiles == {file \in Files : file.content = ContentOf(file.name)}

NextDispatch ==
    \/ \E s \in Sessions :
           RegisterStep(s, DispatchFiles, MaxRaceBatches) \/ DispatchStep(s)
    \/ CompleteStep

SpecDispatch == Init /\ [][NextDispatch]_vars

\* the processed leads tab by all sessions, csv_uploads left alone
DedupeUiStep(s) ==
    \/ \E u, p \in Credentials : ClickLogin(s, u, p)
    \/ AutoRefresh(s)
    \/ ListFiles(s)
    \/ Tab2(s)
    \/ DedupeStep(s)

NextDedupeUi ==
    \/ \E s \in Sessions : DedupeUiStep(s)
    \/ LeadStep

SpecDedupeUi == Init /\ [][NextDedupeUi]_vars

\* a single caller: one session and the workflow, no overlapping operations
Caller == "s1"

NextSeq ==
    \/ RegisterStep(Caller, Files, MaxBatches)
    \/ SelectStep(Caller)
    \/ DispatchStep(Caller)
    \/ DedupeStep(Caller)
    \/ CompleteStep
    \/ LeadStep

SpecSeq == Init /\ [][NextSeq]_vars

\* the DELETE statement of lines 273-283 applied to any content of
\* processed_leads
LeadTables ==
    UNION {{{[id |-> i, username |-> f[i]] : i \in S} : f \in [S -> Usernames]} :
              S \in SUBSET (1..DedupMaxId)}

DedupInit(tables) ==
    /\ csv_uploads \in tables
    /\ processed_leads \in LeadTables
    /\ lead_seq = DedupMaxId + 1
    /\ endpoint_calls = [i \in 1..MaxBatches |-> 0]
    /\ endpoint_ok = [i \in 1..MaxBatches |-> 0]
    /\ endpoint_seen = {}
    /\ logged_in = [s \in Sessions |-> s = Caller]
    /\ login_input = [s \in Sessions |-> IF s = Caller THEN ConfiguredInput ELSE NoInput]
    /\ uploader = [s \in Sessions |-> NoFile]
    /\ selected_filename = [s \in Sessions |-> None]
    /\ process_enabled = [s \in Sessions |-> FALSE]
    /\ confirm_shown = [s \in Sessions |-> FALSE]
    /\ pc = [s \in Sessions |-> IF s = Caller THEN "tab2" ELSE "idle"]
    /\ trigger = [s \in Sessions |-> "none"]
    /\ selected_file_id = [s \in Sessions |-> NoId]
    /\ selected_file_status = [s \in Sessions |-> None]
    /\ csv_data_text = [s \in Sessions |-> None]
    /\ response = [s \in Sessions |-> NoResponse]
    /\ rowcount = [s \in Sessions |-> 0]
    /\ messages = [s \in Sessions |-> {}]

DedupeStatement(s) ==
    /\ pc[s] = "tab2"
    /\ DedupeNow(s)
    /\ UNCHANGED <<csv_uploads, lead_seq, endpoint, widgets>>

InitDedup == DedupInit({<<>>})

NextDedup == DedupeStatement(Caller)

SpecDedup == InitDedup /\ [][NextDedup]_vars

\* the DELETE statement run again and again, each time in the run that
\* st.rerun() (line 283) starts, with batches stored
InitDedupAgain == DedupInit({<<NewRow(file)>> : file \in Files})

NextDedupAgain ==
    \/ DedupeStatement(Caller)
    \/ ListFiles(Caller)

SpecDedupAgain == InitDedupAgain /\ [][NextDedupAgain]_vars

\* the dispatch from its fetch on, for every stored content the fetch can
\* meet.  Registration stores a non-empty csv_content only (pd.read_csv,
\* line 25, refuses an empty file); a missing row, a csv_data without the key
\* or with an empty text is the work of another writer of the database.
StoredPayloads == {JsonPayload("w"), JsonPayload(""), [note |-> "w"]}

StoredTables ==
    UNION {{[i \in 1..n |-> [filename |-> FilenameOrder[((i - 1) % Len(FilenameOrder)) + 1],
                             csv_data |-> d[i],
                             status |-> st[i]]] :
               d \in [1..n -> StoredPayloads],
               st \in [1..n -> {"notstarted", "inprogress"}]} :
              n \in 0..MaxBatches}

InitFetch ==
    /\ csv_uploads \in StoredTables
    /\ processed_leads = {}
    /\ lead_seq = 1
    /\ endpoint_calls = [i \in 1..MaxBatches |-> 0]
    /\ endpoint_ok = [i \in 1..MaxBatches |-> 0]
    /\ endpoint_seen = {}
    /\ logged_in = [s \in Sessions |-> s = Caller]
    /\ login_input = [s \in Sessions |-> IF s = Caller THEN ConfiguredInput ELSE NoInput]
    /\ uploader = [s \in Sessions |-> NoFile]
    /\ selected_filename = [s \in Sessions |-> None]
    /\ process_enabled = [s \in Sessions |-> s = Caller]
    /\ confirm_shown = [s \in Sessions |-> FALSE]
    /\ pc = [s \in Sessions |-> IF s = Caller THEN "fetch" ELSE "idle"]
    /\ trigger = [s \in Sessions |-> IF s = Caller THEN "process" ELSE "none"]
    /\ \E id \in 1..MaxBatches :
           selected_file_id = [s \in Sessions |-> IF s = Caller THEN id ELSE NoId]
    /\ selected_file_status =
           [s \in Sessions |-> IF s = Caller THEN "notstarted" ELSE None]
    /\ csv_data_text = [s \in Sessions |-> None]
    /\ response = [s \in Sessions |-> NoResponse]
    /\ rowcount = [s \in Sessions |-> 0]
    /\ messages = [s \in Sessions |-> {}]

NextFetch ==
    \/ Fetch(Caller)
    \/ \E code \in StatusCodes : Post(Caller, code)
    \/ PostRaises(Caller)
    \/ Update(Caller)
    \/ ListFiles(Caller)
    \/ Tab2(Caller)

SpecFetch == InitFetch /\ [][NextFetch]_vars

\* ================================================================ claims =
StatusRank(st) ==
    CASE st = "notstarted" -> 0
      [] st = "inprogress" -> 1
      [] st = "complete"   -> 2
      [] OTHER             -> 3

\* C1: the stored status of every batch only moves forward along
\* notstarted -> inprogress -> complete, in every step of every execution.
C1_StatusNeverRegresses ==
    [][\A i \in DOMAIN csv_uploads :
          StatusRank(csv_uploads'[i].status) >= StatusRank(csv_uploads[i].status)]_vars

\* C2: no reachable state of csv_uploads holds two rows with the same filename.
C2_UniqueFilenames ==
    \A i, j \in DOMAIN csv_uploads :
        i # j => csv_uploads[i].filename # csv_uploads[j].filename

\* C3 as claimed: the endpoint receives a request for a batch only while the
\* stored status of that batch is notstarted at the moment of the call.
C3_NoCallUnlessStoredNotStarted ==
    [][\A i \in DOMAIN csv_uploads :
          endpoint_calls'[i] > endpoint_calls[i] => csv_uploads[i].status = "notstarted"]_vars

\* C3 as amended: a "Process Leads" run whose own file list query read a status
\* other than notstarted shows the precondition warning and goes on to the
\* second tab without calling the endpoint; a run is in the fetch, post or
\* update step only if it read notstarted.
C3_NoCallUnlessReadNotStarted ==
    \A s \in Sessions :
        /\ pc[s] \in {"fetch", "post", "update"} =>
               selected_file_status[s] = "notstarted"
        /\ (trigger[s] = "process" /\ selected_file_status[s] # "notstarted") =>
               /\ pc[s] = "tab2"
               /\ "cannot_process" \in messages[s]
               /\ response[s] = NoResponse
               /\ csv_data_text[s] = None

\* C3 witness: a run started by "Process Leads" read inprogress and refused.
C3_Witness ==
    \E s \in Sessions :
        /\ trigger[s] = "process"
        /\ selected_file_status[s] = "inprogress"
        /\ "cannot_process" \in messages[s]

\* C4: the write of inprogress takes effect only on a row whose stored status
\* is notstarted at the moment of the update.
C4_UpdateIsCompareAndSwap ==
    [][\A i \in DOMAIN csv_uploads :
          (csv_uploads'[i].status = "inprogress" /\ csv_uploads[i].status # "inprogress")
              => csv_uploads[i].status = "notstarted"]_vars

MinId(rows) == CHOOSE m \in {r.id : r \in rows} : \A r \in rows : m <= r.id

SameUsername(leads, r) == {q \in leads : q.username = r.username}

OldestPerUsername(leads) == {r \in leads : r.id = MinId(SameUsername(leads, r))}

UsernamesOf(leads) == {r.username : r \in leads}

\* C5: one run of the dedup DELETE leaves exactly the rows whose id is the
\* minimum id among the rows with the same username; no two survivors share a
\* username and every username present before is still present.
C5_DedupKeepsOldest ==
    [][/\ processed_leads' = OldestPerUsername(processed_leads)
       /\ \A r, q \in processed_leads' : r.username = q.username => r = q
       /\ UsernamesOf(processed_leads') = UsernamesOf(processed_leads)]_vars

\* C5 witness: the DELETE ran on four rows and removed two of them.
C5_Witness ==
    /\ "dedupe_done" \in messages[Caller]
    /\ rowcount[Caller] = 2
    /\ Cardinality(processed_leads) = 2

HasDuplicates(leads) ==
    \E r, q \in leads : r.id # q.id /\ r.username = q.username

\* C6: a step removes a row of processed_leads only if it is the second tab
\* of a run in which the confirmation button is pressed.
C6_NoDeleteWithoutConfirm ==
    [][(processed_leads \subseteq processed_leads')
          \/ \E s \in Sessions :
                 pc[s] = "tab2" /\ pc'[s] # "tab2" /\ ConfirmButton(s)]_vars

\* C6 witness: the first button was pressed while duplicates were stored, the
\* run is over and the duplicates are still there.
C6_Witness ==
    \E s \in Sessions :
        /\ Idle(s)
        /\ confirm_shown[s]
        /\ HasDuplicates(processed_leads)

\* C7: the run started by pressing "Yes, Deduplicate Now" executes the DELETE,
\* so its second tab leaves no duplicates.
C7_ConfirmedDedupDeletes ==
    [][\A s \in Sessions :
          (pc[s] = "tab2" /\ trigger[s] = "confirm" /\ pc'[s] # "tab2")
              => ~HasDuplicates(processed_leads')]_vars

\* C8: a dispatch whose call raises or is answered with a code other than 200
\* does not modify csv_uploads and does not reach the status update; only a
\* run that received 200 is at the update.
C8_FailureLeavesStatus ==
    [][\A s \in Sessions :
          /\ (pc[s] = "post" /\ pc'[s] # "post" /\ response'[s] # HTTP_OK)
                 => (csv_uploads' = csv_uploads /\ pc'[s] = "tab2")
          /\ (pc[s] = "tab2" /\ pc'[s] # "tab2") => csv_uploads' = csv_uploads
          /\ pc'[s] = "update" => response'[s] = HTTP_OK]_vars

\* C8 witness: a batch was sent twice, never accepted, and is still notstarted.
C8_Witness ==
    \E i \in DOMAIN csv_uploads :
        /\ endpoint_calls[i] = 2
        /\ endpoint_ok[i] = 0
        /\ csv_uploads[i].status = "notstarted"

\* C9: a dispatch answered with a code other than 200 ends with an error shown.
C9_FailureIsReported ==
    \A s \in Sessions :
        (pc[s] = "tab2" /\ trigger[s] = "process"
            /\ response[s] # NoResponse /\ response[s] # HTTP_OK)
        => messages[s] # {}

\* C10: with a single caller, registration creates a notstarted batch, a
\* dispatch answered 200 writes inprogress, the button is enabled only for a
\* notstarted batch, the endpoint is called only for a batch stored as
\* notstarted, and it accepts at most one call per batch.
C10_SequentialScenario ==
    [][/\ Len(csv_uploads') > Len(csv_uploads) =>
              csv_uploads'[Len(csv_uploads')].status = "notstarted"
       /\ (pc[Caller] = "update" /\ pc'[Caller] # "update") =>
              csv_uploads'[selected_file_id[Caller]].status = "inprogress"
       /\ (Idle(Caller) /\ process_enabled[Caller]) =>
              \A i \in RowsNamed(selected_filename[Caller]) :
                  csv_uploads[i].status = "notstarted"
       /\ \A i \in DOMAIN csv_uploads :
              /\ endpoint_calls'[i] > endpoint_calls[i] =>
                     csv_uploads[i].status = "notstarted"
              /\ endpoint_ok'[i] <= 1]_vars

\* C10 witness: the batch was accepted once, is inprogress, and the caller's
\* page shows it selected with the button disabled.
C10_Witness ==
    \E i \in DOMAIN csv_uploads :
        /\ endpoint_ok[i] = 1
        /\ csv_uploads[i].status = "inprogress"
        /\ Idle(Caller)
        /\ selected_filename[Caller] = csv_uploads[i].filename
        /\ ~process_enabled[Caller]

\* sessions whose dispatch of batch i was answered 200 and has not yet written
BetweenCallAndWrite(i) ==
    {s \in Sessions : pc[s] = "update" /\ selected_file_id[s] = i}

\* C11: a batch is accepted by the endpoint more than once only through the
\* race: while the stored status is still notstarted, every accepted call
\* belongs to a different session that stands between its call and its write.
C11_SeveralCallsOnlyByRace ==
    \A i \in DOMAIN csv_uploads :
        csv_uploads[i].status = "notstarted" =>
            endpoint_ok[i] = Cardinality(BetweenCallAndWrite(i))

\* C11 witness: both sessions passed the status check and were both answered
\* 200 for the same batch before either wrote inprogress.
C11_Witness ==
    \E i \in DOMAIN csv_uploads :
        /\ csv_uploads[i].status = "notstarted"
        /\ endpoint_ok[i] = 2
        /\ \A s \in Sessions :
               /\ pc[s] = "update"
               /\ selected_file_id[s] = i
               /\ selected_file_status[s] = "notstarted"

Lead(i, u) == [id |-> i, username |-> u]

C12_ExampleBefore == {Lead(1, "A"), Lead(2, "A"), Lead(3, "B"), Lead(4, "A")}

C12_ExampleAfter == {Lead(1, "A"), Lead(3, "B")}

\* C12: the count reported by a run of the dedup DELETE is the number of rows
\* it removed (rows before minus rows after), a row with several earlier
\* duplicates counted once; on {(1,A),(2,A),(3,B),(4,A)} the survivors are
\* {(1,A),(3,B)} and the count reported is 2.
C12_ReportedCountIsRowsRemoved ==
    [][/\ "dedupe_done" \in messages'[Caller]
       /\ rowcount'[Caller] =
              Cardinality(processed_leads) - Cardinality(processed_leads')
       /\ processed_leads = C12_ExampleBefore =>
              /\ processed_leads' = C12_ExampleAfter
              /\ rowcount'[Caller] = 2]_vars

\* C12 witness: the DELETE ran and left the survivors of the example, having
\* removed the rows 2 and 4; row 4 had more than one earlier duplicate.
C12_Witness ==
    /\ "dedupe_done" \in messages[Caller]
    /\ processed_leads = C12_ExampleAfter
    /\ rowcount[Caller] = 2
    /\ pc[Caller] = "list"

\* C13: the batch list query and the result list query, executed twice with
\* no mutation in between, return the same ordered sequence: in every state
\* each query has exactly one possible answer.  (That the queries change
\* neither table is C13_ListingChangesNothing.)
C13_ListingIsDetermined ==
    /\ Cardinality(BatchListings) = 1
    /\ Cardinality(ResultListings) = 1

\* the steps that only list (the batch list of tab 1, the result list of tab 2
\* without a confirmed dedup) change neither table
C13_ListingChangesNothing ==
    [][\A s \in Sessions :
          (pc[s] \in {"list", "tab2"} /\ pc'[s] # pc[s] /\ ~DedupeConfirmed(s))
              => UNCHANGED <<csv_uploads, processed_leads>>]_vars

\* the run of session s started by "Save CSV to Postgres" found its filename
\* in csv_uploads and showed the duplicate-filename error
SaveRejected(s) ==
    trigger[s] = "save" /\ "duplicate_filename" \in messages[s]

\* C14: "Save CSV to Postgres" pressed with a filename some row of csv_uploads
\* already has reports the duplicate-filename error and goes on without the
\* INSERT, and no step of the rejected run changes csv_uploads: no row is
\* added, no row's payload or status is altered.
C14_RejectedRegistrationChangesNothing ==
    [][\A s \in Sessions :
          /\ ( /\ pc[s] = "idle"
               /\ trigger'[s] = "save"
               /\ \E i \in DOMAIN csv_uploads :
                      csv_uploads[i].filename = uploader[s].name )
               => /\ SaveRejected(s)'
                  /\ pc'[s] = "list"
                  /\ csv_uploads' = csv_uploads
          /\ (SaveRejected(s) /\ pc'[s] # pc[s])
               => /\ csv_uploads' = csv_uploads
                  /\ pc'[s] # "insert"]_vars

\* C14 witness: a rejected registration has run to the end of its script run
\* and the table still holds only the row that was there before.
C14_Witness ==
    \E s \in Sessions :
        /\ SaveRejected(s)
        /\ pc[s] = "tab2"
        /\ uploader[s].name = "a.csv"
        /\ Len(csv_uploads) = 1
        /\ csv_uploads[1].filename = "a.csv"

\* a step of the program (of some session's script run), as opposed to a step
\* of the external workflow, which moves no session
ProgramStep == pc' # pc

\* C15: the program writes two status values only: notstarted, in the row a
\* registration inserts, and inprogress, in the row of a dispatch that was
\* answered 200; it writes no other value and removes no batch.
C15_OnlyTwoStatusValuesWritten ==
    [][ProgramStep =>
          /\ Len(csv_uploads') >= Len(csv_uploads)
          /\ \A i \in DOMAIN csv_uploads :
                 /\ csv_uploads'[i].filename = csv_uploads[i].filename
                 /\ csv_uploads'[i].csv_data = csv_uploads[i].csv_data
                 /\ csv_uploads'[i].status # csv_uploads[i].status =>
                        /\ csv_uploads'[i].status = "inprogress"
                        /\ \E s \in Sessions :
                               /\ pc[s] = "update"
                               /\ pc'[s] # "update"
                               /\ response[s] = HTTP_OK
                               /\ selected_file_id[s] = i
          /\ \A i \in DOMAIN csv_uploads' \ DOMAIN csv_uploads :
                 /\ csv_uploads'[i].status = "notstarted"
                 /\ \E s \in Sessions : pc[s] = "insert" /\ pc'[s] # "insert"]_vars

\* C15 witness: the program has written both values: a session registered a
\* batch as notstarted and its dispatch, answered 200, wrote inprogress.
C15_Witness ==
    \E s \in Sessions, i \in DOMAIN csv_uploads :
        /\ "sent" \in messages[s]
        /\ pc[s] = "list"
        /\ csv_uploads[i].status = "inprogress"
        /\ endpoint_ok[i] = 1

\* a step of the script run in which session s pressed "Process Leads"
DispatchStepOf(s) ==
    /\ pc'[s] # pc[s]
    /\ trigger[s] = "process" \/ trigger'[s] = "process"

\* C16: a dispatch of batch b changes at most the status of b: the number of
\* batches, every filename and payload, every field of the other batches and
\* processed_leads are as before; what it sends to the endpoint is the stored
\* payload of b with b's id as x-id.
C16_DispatchFrame ==
    [][\A s \in Sessions :
          DispatchStepOf(s) =>
              /\ processed_leads' = processed_leads
              /\ DOMAIN csv_uploads' = DOMAIN csv_uploads
              /\ \A i \in DOMAIN csv_uploads :
                     /\ csv_uploads'[i].filename = csv_uploads[i].filename
                     /\ csv_uploads'[i].csv_data = csv_uploads[i].csv_data
                     /\ i # selected_file_id[s] => csv_uploads'[i] = csv_uploads[i]
              /\ endpoint_calls' # endpoint_calls =>
                     /\ selected_file_id[s] \in DOMAIN csv_uploads
                     /\ \A i \in DOMAIN endpoint_calls :
                            i # selected_file_id[s] =>
                                endpoint_calls'[i] = endpoint_calls[i]
                     /\ [xid |-> selected_file_id[s],
                         body |-> csv_uploads[selected_file_id[s]].csv_data.csv_content]
                            \in endpoint_seen'
                     /\ \A e \in endpoint_seen' \ endpoint_seen :
                            e.xid = selected_file_id[s]]_vars

\* C16 witness: the second of two batches with different payloads was
\* dispatched: the endpoint saw x-id 2 with the payload of batch 2, batch 2 is
\* inprogress, batch 1 is untouched and processed_leads holds a row.
C16_Witness ==
    /\ Len(csv_uploads) = 2
    /\ csv_uploads[1].csv_data # csv_uploads[2].csv_data
    /\ csv_uploads[1].status = "notstarted"
    /\ csv_uploads[2].status = "inprogress"
    /\ endpoint_seen = {[xid |-> 2, body |-> csv_uploads[2].csv_data.csv_content]}
    /\ processed_leads # {}

\* the row with this id is absent, or its csv_data has no csv_content, or an
\* empty one
NoUsablePayload(id) ==
    \/ id \notin DOMAIN csv_uploads
    \/ "csv_content" \notin DOMAIN csv_uploads[id].csv_data
    \/ csv_uploads[id].csv_data.csv_content = ""

\* C17: a dispatch whose fetch finds no row, no csv_content or an empty one
\* goes to the end of its run with an error shown, without a call to the
\* endpoint and without a change to any batch; the endpoint is never sent an
\* empty body.
C17_NoPayloadNoCall ==
    [][/\ \A s \in Sessions :
            (pc[s] = "fetch" /\ pc'[s] # "fetch" /\ NoUsablePayload(selected_file_id[s]))
                => /\ pc'[s] = "tab2"
                   /\ "error_processing" \in messages'[s]
                   /\ UNCHANGED <<endpoint, csv_uploads>>
       /\ \A s \in Sessions :
            (pc[s] = "tab2" /\ pc'[s] # "tab2" /\ "error_processing" \in messages[s])
                => UNCHANGED <<endpoint, csv_uploads>>
       /\ \A e \in endpoint_seen' : e.body # "" /\ e.body # None]_vars

\* C17 witness: the fetch met a stored row with an empty csv_content; the run
\* stands at its end with the error shown and no call made.
C17_Witness ==
    /\ pc[Caller] = "tab2"
    /\ trigger[Caller] = "process"
    /\ selected_file_id[Caller] \in DOMAIN csv_uploads
    /\ csv_uploads[selected_file_id[Caller]].csv_data = JsonPayload("")
    /\ csv_uploads[selected_file_id[Caller]].status = "notstarted"
    /\ "error_processing" \in messages[Caller]
    /\ \A i \in DOMAIN endpoint_calls : endpoint_calls[i] = 0

\* the DELETE is about to run in a session whose earlier run already ran it
SecondDedup(s) ==
    /\ pc[s] = "tab2"
    /\ "dedupe_done" \in messages[s]

\* C18: the dedup DELETE run again with no insert in between removes no row,
\* reports 0 and leaves processed_leads as the first run left it; no run of
\* the DELETE changes csv_uploads.
C18_DedupIdempotent ==
    [][/\ csv_uploads' = csv_uploads
       /\ (SecondDedup(Caller) /\ pc'[Caller] # "tab2") =>
              /\ processed_leads' = processed_leads
              /\ rowcount'[Caller] = 0
              /\ "dedupe_done" \in messages'[Caller]]_vars

\* C18 witness: a first run of the DELETE removed two rows, a batch is
\* stored, and the session stands before the DELETE once more.
C18_Witness ==
    /\ SecondDedup(Caller)
    /\ rowcount[Caller] = 2
    /\ processed_leads # {}
    /\ Len(csv_uploads) = 1

\* C19: a session that is not logged in runs no part of the script behind
\* the login section: it stands idle, and a run of it changes neither table
\* and makes no call to the endpoint; logged_in turns true only in a run in
\* which Login is pressed with the configured username and password typed.
C19_LoginGate ==
    [][\A s \in Sessions :
          /\ ~logged_in[s] => pc[s] = "idle"
          /\ (~logged_in[s] /\ (pc'[s] # pc[s] \/ login_input'[s] # login_input[s]))
                 => UNCHANGED <<db, endpoint>>
          /\ (~logged_in[s] /\ pc'[s] # pc[s]) => logged_in'[s]
          /\ (~logged_in[s] /\ logged_in'[s])
                 => /\ login_input'[s] = ConfiguredInput
                    /\ pc'[s] = "list"]_vars

\* C19 witness: one session logged in, registered a batch and dispatched it,
\* while the other pressed Login with a wrong password and is still out.
C19_Witness ==
    \E s, t \in Sessions :
        /\ logged_in[s]
        /\ login_input[s] = ConfiguredInput
        /\ ~logged_in[t]
        /\ login_input[t] = <<"good", "bad">>
        /\ pc[t] = "idle"
        /\ Len(csv_uploads) = 1
        /\ endpoint_calls[1] > 0

====
